---- MODULE Spec2Model ----
(***************************************************************************)
(* Model of the HospitalPro scheduling backend: the category schedule      *)
(* engine (ScheduleService in app/services/schedule_service.py) and the    *)
(* booking endpoint (book_appointment in app/api/endpoints/appointments.py)*)
(*                                                                         *)
(* Time: an instant (a naive datetime) is an integer number of minutes     *)
(* since 2024-01-01 00:00, which is ScheduleService.ANCHOR_DATE and a      *)
(* Monday.  A date is an integer number of days since 2024-01-01.          *)
(***************************************************************************)
EXTENDS Integers, Sequences, FiniteSets, TLC

VARIABLES
    clock,          \* datetime.now(): the current instant
    schedules,      \* rows of table category_schedules
    appointments,   \* rows of table appointments
    requests,       \* book_appointment requests in flight, by request
    search,         \* the get_next_available_slots invocation in progress
    probe           \* one evaluation of _is_schedule_active (SpecRotation)

vars == <<clock, schedules, appointments, requests, search, probe>>

----------------------------------------------------------------------------
(* Calendar arithmetic of datetime / date / timedelta.                      *)

MinutesPerDay == 1440

\* datetime.date(): drop the time of day
DateOf(t) == t \div MinutesPerDay

\* date.weekday(), Monday = 0; day 0 (2024-01-01) is a Monday
Weekday(d) == d % 7

\* datetime.combine(date, time)
Combine(d, tm) == d * MinutesPerDay + tm

\* Optional values: None is the empty tuple, a present value v is <<v>>
None == <<>>
Some(v) == <<v>>

----------------------------------------------------------------------------
(* Enumerations.                                                            *)

SCHEDULED == "scheduled"
CONFIRMED == "confirmed"
CANCELLED == "cancelled"
COMPLETED == "completed"
AppointmentStatus == {SCHEDULED, CONFIRMED, CANCELLED, COMPLETED}

SPECIALTY == "specialty"
LABORATORY == "laboratory"
CategoryType == {SPECIALTY, LABORATORY}

FIXED == "fixed"
ALTERNATED == "alternated"
RotationType == {FIXED, ALTERNATED}

\* ScheduleService.ANCHOR_DATE.date() = 2024-01-01 = day 0
ANCHOR_DATE == 0

\* the search horizon of get_next_available_slots
HORIZON == 60

----------------------------------------------------------------------------
(* Bounds of the model.                                                     *)

\* resource names (CategorySchedule.name, Appointment.specialty)
Names == {"Cardiology", "Blood Test"}

\* book_appointment requests that may be in flight together
MaxRequests == 2

Requests == 1..MaxRequests

\* rows of table appointments after which no further booking is received
MaxBooked == 3

\* user ids a booking may name; the users that are active doctors
UserIds == {1, 2, 3}
ActiveDoctors == {1, 2}

\* the limits a search is called with (the HTTP boundary uses 3)
MaxLimit == 2

\* slots per block and rotation periods of the stored schedules
MaxTurns == 2
MaxRotationWeeks == 2

\* appointments stored when the searches start
MaxAppointments == 1

\* _is_schedule_active is evaluated on the dates from 2024-01-01 minus
\* MaxProbeDays to 2024-01-01 plus MaxProbeDays, for rotation periods of
\* up to MaxProbeWeeks weeks
MaxProbeDays == 30
MaxProbeWeeks == 3

\* the clock advances TickMinutes at a time, MaxTicks times
TickMinutes == 40
MaxTicks == 1

\* the date 2024-01-day
Jan(day) == day - 1

\* Monday 2024-01-08 and Tuesday 2024-01-09
Mon8 == Jan(8)
Tue9 == Jan(9)

\* the instants bookings and stored appointments are at:
\* Monday 2024-01-08 23:30 and Tuesday 2024-01-09 00:00
BookInstants == {Combine(Mon8, 1410), Combine(Tue9, 0)}

\* the instant the clock starts at: Monday 2024-01-08 23:20
ClockStart == Combine(Mon8, 1400)
ClockEnd == ClockStart + MaxTicks * TickMinutes

\* the stored schedules are drawn from these: all are of the specialty
\* Cardiology, with a Monday block starting at 23:30 with turns of 60
\* minutes or a Tuesday block starting at 00:00 with turns of 30 minutes
PoolName == "Cardiology"
PoolType == SPECIALTY
PoolBlocks == {<<Weekday(Mon8), 1410, 60>>, <<Weekday(Tue9), 0, 30>>}

\* an anchor date no search beginning on 2024-01-08 or -09 walks up to
FarDate == Mon8 + 70

\* rotation_type, rotation_weeks and start_date of the stored schedules
PoolRotations ==
    {<<FIXED, 1, None>>, <<ALTERNATED, MaxRotationWeeks, None>>,
     <<ALTERNATED, 1, Some(FarDate)>>}

----------------------------------------------------------------------------
(* The appointments table and book_appointment.                             *)

\* a row of table appointments
Appointment(id, doctor, instant, specialty, status) ==
    [id |-> id, patient_id |-> 1, doctor_id |-> doctor,
     appointment_date |-> instant, specialty |-> specialty, status |-> status]

\* the autoincrement primary key of the next inserted row
NextId(rows) ==
    IF rows = {} THEN 1
    ELSE 1 + (CHOOSE m \in {r.id : r \in rows} : \A r \in rows : r.id <= m)

\* a request not received yet
IdleRequest ==
    [pc |-> "idle", doctor_id |-> 0, appointment_date |-> 0,
     specialty |-> "", status_code |-> 0]

\* the doctor query of book_appointment: an active user with role DOCTOR
DoctorFound(doctor) == doctor \in ActiveDoctors

\* the availability query without the condition on the status
ExistingAppointments_anyStatus(doctor, instant) ==
    {a \in appointments :
        /\ a.doctor_id = doctor
        /\ a.appointment_date = instant}

\* the rows the availability query of book_appointment selects
ExistingAppointments(doctor, instant) ==
    {a \in appointments :
        /\ a.doctor_id = doctor
        /\ a.appointment_date = instant
        /\ a.status \in {SCHEDULED, CONFIRMED}}

\* The request arrives and the doctor is looked up (first await):
\* 404 when there is no such active doctor.
BookReceive(r) ==
    /\ requests[r].pc = "idle"
    /\ \E doctor \in UserIds, instant \in BookInstants, specialty \in Names :
          requests' = [requests EXCEPT ![r] =
              [pc |-> IF DoctorFound(doctor) THEN "doctor_ok" ELSE "done",
               doctor_id |-> doctor, appointment_date |-> instant,
               specialty |-> specialty,
               status_code |-> IF DoctorFound(doctor) THEN 0 ELSE 404]]
    /\ UNCHANGED <<clock, schedules, appointments, search, probe>>

\* The availability query (second await) and scalar_one_or_none():
\* no row: go on; one row: 409; several rows: MultipleResultsFound, an
\* unhandled exception (500).
BookCheck(r) ==
    /\ requests[r].pc = "doctor_ok"
    /\ LET existing == ExistingAppointments(requests[r].doctor_id,
                                            requests[r].appointment_date)
       IN  requests' = [requests EXCEPT ![r] =
              IF existing = {} THEN [@ EXCEPT !.pc = "free"]
              ELSE IF Cardinality(existing) = 1
                   THEN [@ EXCEPT !.pc = "done", !.status_code = 409]
                   ELSE [@ EXCEPT !.pc = "done", !.status_code = 500]]
    /\ UNCHANGED <<clock, schedules, appointments, search, probe>>

\* db.add without the commit: 201 is answered and no row is stored
BookCommit_noCommit(r) ==
    /\ requests[r].pc = "free"
    /\ requests' = [requests EXCEPT ![r] =
          [@ EXCEPT !.pc = "done", !.status_code = 201]]
    /\ UNCHANGED <<clock, schedules, appointments, search, probe>>

\* db.add, db.commit: the table has no unique constraint on
\* (doctor_id, appointment_date), so the insert always succeeds: 201.
BookCommit(r) ==
    /\ requests[r].pc = "free"
    /\ appointments' = appointments \cup
          {Appointment(NextId(appointments), requests[r].doctor_id,
                       requests[r].appointment_date, requests[r].specialty,
                       SCHEDULED)}
    /\ requests' = [requests EXCEPT ![r] =
          [@ EXCEPT !.pc = "done", !.status_code = 201]]
    /\ UNCHANGED <<clock, schedules, search, probe>>

\* The response is sent; the worker is free for the next request.
BookRespond(r) ==
    /\ requests[r].pc = "done"
    /\ Cardinality(appointments) < MaxBooked
    /\ requests' = [requests EXCEPT ![r] = IdleRequest]
    /\ UNCHANGED <<clock, schedules, appointments, search, probe>>

----------------------------------------------------------------------------
(* ScheduleService: rotation, slot generation, occupancy.                   *)

\* a row of table category_schedules, with the fields the service reads
\* (start_date is None or Some(date))
CategorySchedule(id, type, name, dow, start, duration, turns, rot, weeks, anchor) ==
    [id |-> id, category_type |-> type, name |-> name, day_of_week |-> dow,
     start_time |-> start, turn_duration |-> duration,
     max_turns_per_block |-> turns, rotation_type |-> rot,
     rotation_weeks |-> weeks, start_date |-> anchor]

\* the anchor when the schedule's own start_date is ignored
AnchorOf_global(category) == ANCHOR_DATE

\* anchor_date = category.start_date if category.start_date else ANCHOR_DATE
AnchorOf(category) ==
    IF category.start_date # None THEN category.start_date[1] ELSE ANCHOR_DATE

\* _is_schedule_active without the test for dates before the anchor
IsScheduleActive_noPreAnchor(category, date) ==
    IF category.rotation_type = FIXED THEN TRUE
    ELSE IF category.rotation_type = ALTERNATED THEN
        LET days_since_anchor == DateOf(date) - AnchorOf(category)
            weeks_since_anchor == days_since_anchor \div 7
        IN  IF category.rotation_weeks > 1
            THEN (weeks_since_anchor % category.rotation_weeks) = 0
            ELSE TRUE
    ELSE FALSE

\* _is_schedule_active falling back to False for a period of one week
IsScheduleActive_fallbackFalse(category, date) ==
    IF category.rotation_type = FIXED THEN TRUE
    ELSE IF category.rotation_type = ALTERNATED THEN
        LET days_since_anchor == DateOf(date) - AnchorOf(category)
            weeks_since_anchor == days_since_anchor \div 7
        IN  IF days_since_anchor < 0 THEN FALSE
            ELSE IF category.rotation_weeks > 1
                 THEN (weeks_since_anchor % category.rotation_weeks) = 0
                 ELSE FALSE
    ELSE FALSE

\* _is_schedule_active applying the rotation test to FIXED schedules too
IsScheduleActive_fixedRotates(category, date) ==
    IF category.rotation_type \in {FIXED, ALTERNATED} THEN
        LET days_since_anchor == DateOf(date) - AnchorOf(category)
            weeks_since_anchor == days_since_anchor \div 7
        IN  IF days_since_anchor < 0 THEN FALSE
            ELSE IF category.rotation_weeks > 1
                 THEN (weeks_since_anchor % category.rotation_weeks) = 0
                 ELSE TRUE
    ELSE FALSE

\* _is_schedule_active counting in days: active only on the dates a whole
\* number of rotation periods after the anchor
IsScheduleActive_exactDays(category, date) ==
    IF category.rotation_type = FIXED THEN TRUE
    ELSE IF category.rotation_type = ALTERNATED THEN
        LET days_since_anchor == DateOf(date) - AnchorOf(category)
        IN  IF days_since_anchor < 0 THEN FALSE
            ELSE IF category.rotation_weeks > 1
                 THEN (days_since_anchor % (7 * category.rotation_weeks)) = 0
                 ELSE TRUE
    ELSE FALSE

\* _is_schedule_active(category, date), date an instant
IsScheduleActive(category, date) ==
    IF category.rotation_type = FIXED THEN TRUE
    ELSE IF category.rotation_type = ALTERNATED THEN
        LET days_since_anchor == DateOf(date) - AnchorOf(category)
            weeks_since_anchor == days_since_anchor \div 7
        IN  IF days_since_anchor < 0 THEN FALSE
            ELSE IF category.rotation_weeks > 1
                 THEN (weeks_since_anchor % category.rotation_weeks) = 0
                 ELSE TRUE
    ELSE FALSE

\* a TimeSlot
TimeSlot(instant, category) ==
    [slot_datetime |-> instant, category_name |-> category.name,
     category_id |-> category.id]

\* the loop of _generate_slots: for turn_number in range(max_turns_per_block),
\* append a slot at current_time and add turn_duration minutes to it
RECURSIVE GenerateLoop(_, _, _, _)
GenerateLoop(category, current_time, turn_number, slots) ==
    IF turn_number >= category.max_turns_per_block THEN slots
    ELSE GenerateLoop(category, current_time + category.turn_duration,
                      turn_number + 1,
                      Append(slots, TimeSlot(current_time, category)))

\* _generate_slots starting at the date's own time of day plus start_time
GenerateSlots_keepTimeOfDay(category, date) ==
    GenerateLoop(category, date + category.start_time, 0, <<>>)

\* _generate_slots with a loop one turn short
GenerateSlots_dropLast(category, date) ==
    LET slots == GenerateLoop(category,
                              Combine(DateOf(date), category.start_time), 0, <<>>)
    IN  SubSeq(slots, 1, Len(slots) - 1)

\* _generate_slots(category, date): the first slot is at
\* combine(date.date(), start_time)
GenerateSlots(category, date) ==
    GenerateLoop(category, Combine(DateOf(date), category.start_time), 0, <<>>)

\* the occupancy query selecting SCHEDULED appointments only
OccupyingStatuses_scheduledOnly == {SCHEDULED}

\* the occupancy query selecting every appointment that was not cancelled
OccupyingStatuses_notCancelled == {SCHEDULED, CONFIRMED, COMPLETED}

\* the statuses the occupancy query selects
OccupyingStatuses == {SCHEDULED, CONFIRMED}

\* the occupancy query without the condition on the specialty
OccupiedAppointments_anySpecialty(slot_datetimes, category_name) ==
    {a \in appointments :
        /\ a.appointment_date \in slot_datetimes
        /\ a.status \in {SCHEDULED, CONFIRMED}}

\* the occupancy query matching appointments for specialty searches only
OccupiedAppointments_specialtiesOnly(slot_datetimes, category_name) ==
    {a \in appointments :
        /\ a.appointment_date \in slot_datetimes
        /\ a.specialty = category_name
        /\ a.status \in {SCHEDULED, CONFIRMED}
        /\ search.category_type = SPECIALTY}

\* the appointments the query of _filter_occupied_slots selects
OccupiedAppointments(slot_datetimes, category_name) ==
    {a \in appointments :
        /\ a.appointment_date \in slot_datetimes
        /\ a.specialty = category_name
        /\ a.status \in OccupyingStatuses}

\* _filter_occupied_slots with the membership test inverted: the occupied
\* slots are the ones returned
FilterOccupiedSlots_occupiedOnly(slots, category_name) ==
    IF slots = <<>> THEN <<>>
    ELSE
        LET slot_datetimes == {slots[i].slot_datetime : i \in 1..Len(slots)}
            occupied_datetimes ==
                {a.appointment_date :
                    a \in OccupiedAppointments(slot_datetimes, category_name)}
            Taken(slot) == slot.slot_datetime \in occupied_datetimes
        IN  SelectSeq(slots, Taken)

\* _filter_occupied_slots(slots, category_name)
FilterOccupiedSlots(slots, category_name) ==
    IF slots = <<>> THEN <<>>
    ELSE
        LET slot_datetimes == {slots[i].slot_datetime : i \in 1..Len(slots)}
            occupied_datetimes ==
                {a.appointment_date :
                    a \in OccupiedAppointments(slot_datetimes, category_name)}
            Free(slot) == slot.slot_datetime \notin occupied_datetimes
        IN  SelectSeq(slots, Free)

----------------------------------------------------------------------------
(* ScheduleService.get_next_available_slots, one loop iteration per step.   *)

\* no search in progress
IdleSearch ==
    [pc |-> "idle", category_name |-> "", category_type |-> "", limit |-> 0,
     schedules_by_day |-> <<>>, current_date_cursor |-> 0,
     days_searched |-> 0, all_available_slots |-> <<>>,
     walked |-> FALSE, category |-> None, now |-> 0,
     slots |-> <<>>, available_slots |-> <<>>]

\* the schedule query without the condition on the category type
MatchingSchedules_anyType(category_name, category_type) ==
    {s \in schedules : s.name = category_name}

\* the schedule query selecting the specialty rows of the name whatever the
\* type asked for
MatchingSchedules_specialtyAlways(category_name, category_type) ==
    {s \in schedules :
        /\ s.name = category_name
        /\ s.category_type = category_type \/ s.category_type = SPECIALTY}

\* the rows the schedule query selects
MatchingSchedules(category_name, category_type) ==
    {s \in schedules :
        s.name = category_name /\ s.category_type = category_type}

\* a mapping that files the schedules under weekdays without regard to which
\* weekday each is for
SchedulesByDay_anyDay(matching) ==
    [{s.day_of_week : s \in matching} -> matching]

\* {s.day_of_week: s for s in schedules}: one schedule per weekday present
\* (with several rows on a weekday the dict keeps whichever the query
\* returned last)
SchedulesByDay(matching) ==
    {f \in [{s.day_of_week : s \in matching} -> matching] :
        \A d \in DOMAIN f : f[d].day_of_week = d}

\* the while loop without the cap on the days searched
LoopContinues_noHorizon(all_available_slots, limit, days_searched) ==
    Len(all_available_slots) < limit

\* the condition of the while loop
LoopContinues(all_available_slots, limit, days_searched) ==
    Len(all_available_slots) < limit /\ days_searched < HORIZON

\* slots = [s for s in slots if s.slot_datetime > now], applied when the
\* cursor is on today's date
FilterPast(slots, cursor, now) ==
    IF DateOf(cursor) = DateOf(now)
    THEN LET Future(slot) == slot.slot_datetime > now
         IN  SelectSeq(slots, Future)
    ELSE slots

\* a day adding all its available slots (extend instead of append [0])
DayContribution_all(available_slots) == available_slots

\* a day adding its last available slot
DayContribution_last(available_slots) ==
    IF available_slots # <<>>
    THEN <<available_slots[Len(available_slots)]>> ELSE <<>>

\* what one day adds to all_available_slots: available_slots[0] if any
DayContribution(available_slots) ==
    IF available_slots # <<>> THEN <<available_slots[1]>> ELSE <<>>

\* The call arrives: now is read, the schedules of the category are queried
\* and indexed by weekday.  Without schedules the call returns [] at once.
SearchBegin ==
    /\ search.pc = "idle"
    /\ \E category_name \in Names, category_type \in CategoryType,
          limit \in 1..MaxLimit :
          LET matching == MatchingSchedules(category_name, category_type)
          IN  \E by_day \in SchedulesByDay(matching) :
                search' = [IdleSearch EXCEPT
                    !.pc = IF matching = {} THEN "done"
                           ELSE IF LoopContinues(<<>>, limit, 0)
                                THEN "walking" ELSE "done",
                    !.category_name = category_name,
                    !.category_type = category_type,
                    !.limit = limit,
                    !.schedules_by_day = by_day,
                    !.current_date_cursor = clock]
    /\ UNCHANGED <<clock, schedules, appointments, requests, probe>>

\* One iteration of the while loop: the day under the cursor is examined
\* (the clock is read once for the two datetime.now() of the today filter),
\* the cursor moves to the next day, and the loop ends on the break or when
\* its condition fails.  walked, category (the schedule found active), now,
\* slots (the candidates handed to the occupancy filter) and available_slots
\* keep what this iteration read and computed.
SearchDay ==
    /\ search.pc = "walking"
    /\ LET cursor == search.current_date_cursor
           weekday == Weekday(DateOf(cursor))
           has_rule == weekday \in DOMAIN search.schedules_by_day
           category == search.schedules_by_day[weekday]
           active == has_rule /\ IsScheduleActive(category, cursor)
           slots == IF active
                    THEN FilterPast(GenerateSlots(category, cursor), cursor, clock)
                    ELSE <<>>
           available_slots == IF slots # <<>>
                              THEN FilterOccupiedSlots(slots, category.name)
                              ELSE <<>>
           collected == search.all_available_slots
                          \o DayContribution(available_slots)
           days_searched == search.days_searched + 1
       IN  search' = [search EXCEPT
               !.all_available_slots = collected,
               !.current_date_cursor = cursor + MinutesPerDay,
               !.days_searched = days_searched,
               !.pc = IF Len(collected) >= search.limit THEN "done"
                      ELSE IF LoopContinues(collected, search.limit, days_searched)
                           THEN "walking" ELSE "done",
               !.walked = TRUE,
               !.category = IF active THEN Some(category) ELSE None,
               !.now = clock,
               !.slots = slots,
               !.available_slots = available_slots]
    /\ UNCHANGED <<clock, schedules, appointments, requests, probe>>

\* a return that reserves the slots it hands out: each returned slot is
\* stored as a SCHEDULED appointment of the category
SearchReturn_reserving ==
    /\ search.pc = "done"
    /\ search' = IdleSearch
    /\ appointments' = appointments \cup
          {Appointment(NextId(appointments) + i - 1, 1,
                       search.all_available_slots[i].slot_datetime,
                       search.category_name, SCHEDULED) :
              i \in 1..Len(search.all_available_slots)}
    /\ UNCHANGED <<clock, schedules, requests, probe>>

\* return all_available_slots
SearchReturn ==
    /\ search.pc = "done"
    /\ search' = IdleSearch
    /\ UNCHANGED <<clock, schedules, appointments, requests, probe>>

\* Time passes.
Tick ==
    /\ clock + TickMinutes <= ClockEnd
    /\ clock' = clock + TickMinutes
    /\ UNCHANGED <<schedules, appointments, requests, search, probe>>

----------------------------------------------------------------------------
(* The search specification: the tables hold some schedules and some       *)
(* appointments, and searches run while time passes.                        *)

\* the subsets of S with at most k elements
RECURSIVE SubsetsUpTo(_, _)
SubsetsUpTo(S, k) ==
    IF k = 0 THEN {{}}
    ELSE LET smaller == SubsetsUpTo(S, k - 1)
         IN  smaller \cup {rows \cup {x} : rows \in smaller, x \in S}

\* the position of x in the sequence s of distinct elements
IndexIn(s, x) == CHOOSE i \in 1..Len(s) : s[i] = x

NameOrder == <<"Cardiology", "Blood Test">>
StatusOrder == <<SCHEDULED, CONFIRMED, CANCELLED, COMPLETED>>

\* the primary key of the schedule of a weekday
PoolId(dow) == 1 + dow

SchedulePool ==
    {CategorySchedule(PoolId(block[1]), PoolType, PoolName, block[1],
                      block[2], block[3], MaxTurns, rot[1], rot[2], rot[3]) :
        block \in PoolBlocks, rot \in PoolRotations}

\* the constraint before the migration: unique (category_type, day_of_week)
UniqueNameDay_typeDay(rows) ==
    \A a, b \in rows :
        (a.category_type = b.category_type /\ a.day_of_week = b.day_of_week)
            => a = b

\* uq_category_schedules_name_day_of_week
UniqueNameDay(rows) ==
    \A a, b \in rows :
        (a.name = b.name /\ a.day_of_week = b.day_of_week) => a = b

\* the primary key of the appointment of an instant, specialty and status
PoolAppointmentId(instant, specialty, status) ==
    IndexIn(StatusOrder, status)
      + 4 * (IndexIn(NameOrder, specialty) - 1)
      + 8 * (IF instant = Combine(Tue9, 0) THEN 1 ELSE 0)

AppointmentPool ==
    {Appointment(PoolAppointmentId(instant, specialty, status), 1,
                 instant, specialty, status) :
        instant \in BookInstants, specialty \in Names,
        status \in AppointmentStatus}

Init ==
    /\ clock = ClockStart
    /\ schedules \in {rows \in SubsetsUpTo(SchedulePool, Cardinality(PoolBlocks)) :
                        UniqueNameDay(rows)}
    /\ appointments \in SubsetsUpTo(AppointmentPool, MaxAppointments)
    /\ requests = [r \in Requests |-> IdleRequest]
    /\ search = IdleSearch
    /\ probe = None

Next == SearchBegin \/ SearchDay \/ SearchReturn \/ Tick

Spec == Init /\ [][Next]_vars

----------------------------------------------------------------------------
(* The booking specification: the tables start empty and booking requests  *)
(* run concurrently, interleaved at their awaits.                           *)

InitBooking ==
    /\ clock = ClockStart
    /\ schedules = {}
    /\ appointments = {}
    /\ requests = [r \in Requests |-> IdleRequest]
    /\ search = IdleSearch
    /\ probe = None

NextBooking ==
    \E r \in Requests :
        BookReceive(r) \/ BookCheck(r) \/ BookCommit(r) \/ BookRespond(r)

SpecBooking == InitBooking /\ [][NextBooking]_vars

----------------------------------------------------------------------------
(* The rotation specification: _is_schedule_active applied to one schedule *)
(* and one date.                                                            *)

\* the anchors of the probed schedules: none, 2024-01-01, Wednesday
\* 2024-01-10 and Monday 2024-01-15
ProbeAnchors == {None, Some(Jan(1)), Some(Jan(10)), Some(Jan(15))}

ProbeSchedules ==
    {CategorySchedule(1, LABORATORY, "Blood Test", Weekday(Mon8), 480, 15, 3,
                      rot, weeks, anchor) :
        rot \in RotationType, weeks \in 1..MaxProbeWeeks,
        anchor \in ProbeAnchors}

\* the probed dates, at 00:00 and at 12:00
ProbeInstants ==
    {Combine(d, tm) : d \in (0 - MaxProbeDays)..MaxProbeDays, tm \in {0, 720}}

InitRotation ==
    /\ clock = ClockStart
    /\ schedules = {}
    /\ appointments = {}
    /\ requests = [r \in Requests |-> IdleRequest]
    /\ search = IdleSearch
    /\ probe \in {Some([category |-> c, date |-> t, called |-> FALSE,
                         active |-> FALSE]) :
                     c \in ProbeSchedules, t \in ProbeInstants}

\* self._is_schedule_active(category, date)
IsActiveCall ==
    /\ probe # None
    /\ ~probe[1].called
    /\ probe' = Some([probe[1] EXCEPT
                        !.called = TRUE,
                        !.active = IsScheduleActive(probe[1].category,
                                                    probe[1].date)])
    /\ UNCHANGED <<clock, schedules, appointments, requests, search>>

NextRotation == IsActiveCall

SpecRotation == InitRotation /\ [][NextRotation]_vars

----------------------------------------------------------------------------
(* Properties of book_appointment (SpecBooking).                            *)

\* an appointment that occupies its instant
IsActive(a) == a.status \in {SCHEDULED, CONFIRMED}

\* C1: concurrent bookings of the same doctor and instant create exactly one
\* appointment: in every reachable state there is at most one SCHEDULED or
\* CONFIRMED appointment per (doctor, instant), the loser of the race
\* having been rejected with a conflict.
C1_AtMostOneActivePerDoctorInstant ==
    \A a, b \in appointments :
        ( /\ IsActive(a) /\ IsActive(b)
          /\ a.doctor_id = b.doctor_id
          /\ a.appointment_date = b.appointment_date ) => a = b

----------------------------------------------------------------------------
(* Properties of get_next_available_slots (Spec).                           *)

\* the instants of the slots collected so far
Result == search.all_available_slots
ResultInstant(i) == Result[i].slot_datetime

\* an active appointment of the resource at the instant
Occupied(resource, instant) ==
    \E a \in appointments :
        /\ IsActive(a)
        /\ a.specialty = resource
        /\ a.appointment_date = instant

\* C2: the list the search returns is in strictly ascending order of
\* slot_datetime.
C2_ResultStrictlyAscending ==
    search.pc = "done" =>
        \A i, j \in 1..Len(Result) : i < j => ResultInstant(i) < ResultInstant(j)

\* C3: no slot the search returns for category name R is at the instant of a
\* SCHEDULED or CONFIRMED appointment whose specialty is R.
C3_NoReturnedSlotOccupied ==
    \A i \in 1..Len(Result) :
        /\ Result[i].category_name = search.category_name
        /\ ~Occupied(search.category_name, ResultInstant(i))

\* C3 witness: a search returned slots although the day examined last had a
\* candidate taken by an active appointment of the category.
C3_Witness ==
    /\ search.pc = "done"
    /\ Len(Result) >= 1
    /\ \E i \in 1..Len(search.slots) :
          Occupied(search.category_name, search.slots[i].slot_datetime)

\* the instants the schedule generates on the date of the cursor that are
\* in the future when the date is today and that no active appointment of
\* the schedule's name takes
SurvivingInstants(category, cursor, now) ==
    {t \in {Combine(DateOf(cursor), category.start_time)
               + k * category.turn_duration :
               k \in 0..(category.max_turns_per_block - 1)} :
        /\ (DateOf(cursor) = DateOf(now)) => t > now
        /\ ~Occupied(category.name, t)}

\* the schedule a loop iteration finds for the cursor, if it is active
ActiveScheduleAt(cursor) ==
    LET weekday == Weekday(DateOf(cursor))
        by_day == search.schedules_by_day
    IN  IF weekday \in DOMAIN by_day /\ IsScheduleActive(by_day[weekday], cursor)
        THEN Some(by_day[weekday]) ELSE None

\* C4: a walked day contributes at most one slot, and that slot is the
\* earliest slot of the day's generated sequence that survives the today
\* filter and the occupancy filter; a day without a surviving slot (or
\* without an active schedule) contributes nothing.
C4_OneEarliestSlotPerDay ==
    [][ (search.pc = "walking" /\ search' # search) =>
          LET cursor == search.current_date_cursor
              found == ActiveScheduleAt(cursor)
              surviving == IF found = None THEN {}
                           ELSE SurvivingInstants(found[1], cursor, clock)
              before == search.all_available_slots
              after == search'.all_available_slots
          IN  IF surviving = {}
              THEN after = before
              ELSE /\ Len(after) = Len(before) + 1
                   /\ SubSeq(after, 1, Len(before)) = before
                   /\ after[Len(after)].slot_datetime \in surviving
                   /\ \A t \in surviving : after[Len(after)].slot_datetime <= t
                   /\ after[Len(after)].category_id = found[1].id ]_vars

\* C4 witness: the day examined last had several free slots and its first
\* one is the last slot collected.
C4_Witness ==
    /\ search.walked
    /\ Len(search.available_slots) >= 2
    /\ Len(Result) >= 1
    /\ Result[Len(Result)] = search.available_slots[1]

\* C5: the search never collects more than limit slots.
C5_AtMostLimit == Len(Result) <= search.limit

\* C5 witness: the search stopped early with exactly limit slots, on a day
\* that still had another free slot.
C5_Witness ==
    /\ search.pc = "done"
    /\ Len(Result) = search.limit
    /\ search.days_searched < HORIZON
    /\ Len(search.available_slots) >= 2

\* C6: the occupancy filter removes from the candidates of category R
\* exactly the slots at the instant of a SCHEDULED or CONFIRMED appointment
\* with specialty R: the other candidates are kept, in order, and an
\* appointment of another resource name removes nothing.
C6_FilterRemovesExactlyOccupied ==
    search.walked =>
        LET slots == search.slots
            kept == {i \in 1..Len(slots) :
                        ~Occupied(search.category_name, slots[i].slot_datetime)}
            available == search.available_slots
        IN  /\ Len(available) = Cardinality(kept)
            /\ \A i \in kept :
                  available[Cardinality({j \in kept : j <= i})] = slots[i]

\* C6 witness: of two candidates the filter removed the one taken by an
\* active appointment of the category and kept the other.
C6_Witness ==
    /\ search.walked
    /\ Len(search.slots) = 2
    /\ Occupied(search.category_name, search.slots[1].slot_datetime)
    /\ search.available_slots = <<search.slots[2]>>

\* C7: a CANCELLED or COMPLETED appointment never removes a slot: a
\* candidate at whose instant the resource has only such appointments is
\* still returned as free by the occupancy filter.
C7_InactiveAppointmentsNeverBlock ==
    search.walked =>
        \A i \in 1..Len(search.slots) :
            LET at == {a \in appointments :
                          /\ a.specialty = search.category_name
                          /\ a.appointment_date = search.slots[i].slot_datetime}
            IN  (\A a \in at : a.status \in {CANCELLED, COMPLETED}) =>
                    \E j \in 1..Len(search.available_slots) :
                        search.available_slots[j] = search.slots[i]

\* C7 witness: a candidate with a COMPLETED appointment of the category at
\* its instant came through the occupancy filter.
C7_Witness ==
    /\ search.walked
    /\ \E i \in 1..Len(search.slots) :
          /\ \E a \in appointments :
                /\ a.specialty = search.category_name
                /\ a.appointment_date = search.slots[i].slot_datetime
                /\ a.status = COMPLETED
          /\ \E j \in 1..Len(search.available_slots) :
                search.available_slots[j] = search.slots[i]

----------------------------------------------------------------------------
(* Properties of _is_schedule_active (SpecRotation).                        *)

\* the evaluation, once made
Called == probe # None /\ probe[1].called
ProbeCategory == probe[1].category
ProbeDate == DateOf(probe[1].date)
ProbeAnchor ==
    IF ProbeCategory.start_date = None THEN Jan(1)
    ELSE ProbeCategory.start_date[1]

\* C8: an ALTERNATED schedule with rotation_weeks = N > 1 and anchor A is
\* active on d exactly when d >= A and floor((d - A) / 7) mod N = 0, that is
\* when d lies in one of the 7-day spans starting at A + 7*N*k; with the
\* default anchor, N = 2 is active on 2024-01-01 and 2024-01-15 and inactive
\* on 2024-01-08, N = 3 is active on Jan 1 and Jan 22 and inactive on Jan 8
\* and Jan 15.
C8_AlternationPeriodicity ==
    (Called /\ ProbeCategory.rotation_type = ALTERNATED
            /\ ProbeCategory.rotation_weeks > 1) =>
        LET N == ProbeCategory.rotation_weeks
            A == ProbeAnchor
            d == ProbeDate
            inSpan == \E k \in 0..(2 * MaxProbeDays) :
                         A + 7 * N * k <= d /\ d <= A + 7 * N * k + 6
            default == ProbeCategory.start_date = None
        IN  /\ probe[1].active <=> inSpan
            /\ (default /\ N = 2 /\ d \in {Jan(1), Jan(15)}) => probe[1].active
            /\ (default /\ N = 2 /\ d = Jan(8)) => ~probe[1].active
            /\ (default /\ N = 3 /\ d \in {Jan(1), Jan(22)}) => probe[1].active
            /\ (default /\ N = 3 /\ d \in {Jan(8), Jan(15)}) => ~probe[1].active

\* C8 witness: a 3-week rotation anchored at its own start_date 2024-01-10
\* found active three weeks later, on 2024-01-31.
C8_Witness ==
    /\ Called
    /\ ProbeCategory.rotation_type = ALTERNATED
    /\ ProbeCategory.rotation_weeks = 3
    /\ ProbeCategory.start_date = Some(Jan(10))
    /\ ProbeDate = Jan(31)
    /\ probe[1].active

\* C9 as stated: an ALTERNATED schedule with rotation_weeks <= 1 is active
\* on every date, dates before its anchor included.
C9_AlwaysActive ==
    (Called /\ ProbeCategory.rotation_type = ALTERNATED
            /\ ProbeCategory.rotation_weeks <= 1) => probe[1].active

\* C9 amended: an ALTERNATED schedule with rotation_weeks <= 1 is active on
\* every date on or after its anchor, and inactive on the dates before it.
C9_ActiveFromAnchor ==
    (Called /\ ProbeCategory.rotation_type = ALTERNATED
            /\ ProbeCategory.rotation_weeks <= 1) =>
        (probe[1].active <=> ProbeDate >= ProbeAnchor)

\* C9 witness: a 1-week ALTERNATED schedule found active in the second week
\* after its anchor.
C9_Witness ==
    /\ Called
    /\ ProbeCategory.rotation_type = ALTERNATED
    /\ ProbeCategory.rotation_weeks = 1
    /\ ProbeDate = ProbeAnchor + 8
    /\ probe[1].active

\* C10: an ALTERNATED schedule, whatever its rotation_weeks and with or
\* without a start_date, is inactive on every date before its anchor.
C10_InactiveBeforeAnchor ==
    (Called /\ ProbeCategory.rotation_type = ALTERNATED
            /\ ProbeDate < ProbeAnchor) => ~probe[1].active

\* C10 witness: a 2-week rotation with its own start_date found inactive
\* exactly two weeks before that date.
C10_Witness ==
    /\ Called
    /\ ProbeCategory.rotation_type = ALTERNATED
    /\ ProbeCategory.rotation_weeks = 2
    /\ ProbeCategory.start_date # None
    /\ ProbeDate = ProbeAnchor - 14
    /\ ~probe[1].active

\* C11: a FIXED schedule is active on every date, whatever its
\* rotation_weeks and its start_date.
C11_FixedAlwaysActive ==
    (Called /\ ProbeCategory.rotation_type = FIXED) => probe[1].active

\* C11 witness: a FIXED schedule with rotation_weeks = 3 and a start_date
\* found active in the week before that date.
C11_Witness ==
    /\ Called
    /\ ProbeCategory.rotation_type = FIXED
    /\ ProbeCategory.rotation_weeks = 3
    /\ ProbeCategory.start_date = Some(Jan(15))
    /\ ProbeDate = Jan(9)
    /\ probe[1].active

----------------------------------------------------------------------------
(* The slot generation specification: _generate_slots applied to one       *)
(* schedule and one date.                                                   *)

\* the generated schedules: blocks starting at 09:00 or at 23:30, with
\* turns of 15, 30 or 60 minutes
SlotStartTimes == {540, 1410}
SlotDurations == {15, 30, 60}

SlotSchedules ==
    {CategorySchedule(id, SPECIALTY, name, Weekday(Mon8), start, duration,
                      turns, FIXED, 1, None) :
        id \in {1, 2}, name \in Names, start \in SlotStartTimes,
        duration \in SlotDurations, turns \in 1..MaxTurns}

\* the dates generated for: the week from 2024-01-08, at 00:00 and at 12:00
SlotInstants == {Combine(d, tm) : d \in Mon8..(Mon8 + 6), tm \in {0, 720}}

InitSlots ==
    /\ clock = ClockStart
    /\ schedules = {}
    /\ appointments = {}
    /\ requests = [r \in Requests |-> IdleRequest]
    /\ search = IdleSearch
    /\ probe \in {Some([category |-> c, date |-> t, called |-> FALSE,
                         slots |-> <<>>]) :
                     c \in SlotSchedules, t \in SlotInstants}

\* self._generate_slots(category, date)
GenerateCall ==
    /\ probe # None
    /\ ~probe[1].called
    /\ probe' = Some([probe[1] EXCEPT
                        !.called = TRUE,
                        !.slots = GenerateSlots(probe[1].category,
                                                probe[1].date)])
    /\ UNCHANGED <<clock, schedules, appointments, requests, search>>

NextSlots == GenerateCall

SpecSlots == InitSlots /\ [][NextSlots]_vars

----------------------------------------------------------------------------
(* Properties of _generate_slots (SpecSlots).                               *)

\* C12: _generate_slots returns exactly max_turns_per_block slots; slot k
\* (0-indexed) is at combine(date, start_time) + k * turn_duration minutes,
\* so the slots are strictly increasing, and each carries the schedule's
\* name and id.
C12_SlotCountAndSpacing ==
    Called =>
        LET slots == probe[1].slots
            first == ProbeDate * MinutesPerDay + ProbeCategory.start_time
        IN  /\ Len(slots) = ProbeCategory.max_turns_per_block
            /\ \A k \in 0..(Len(slots) - 1) :
                  /\ slots[k + 1].slot_datetime
                        = first + k * ProbeCategory.turn_duration
                  /\ slots[k + 1].category_name = ProbeCategory.name
                  /\ slots[k + 1].category_id = ProbeCategory.id
            /\ \A i, j \in 1..Len(slots) :
                  i < j => slots[i].slot_datetime < slots[j].slot_datetime

\* C12 witness: two slots generated for a date given at 12:00, from a block
\* that starts at 09:00 with turns of 30 minutes.
C12_Witness ==
    /\ Called
    /\ probe[1].date = Combine(Mon8, 720)
    /\ ProbeCategory.start_time = 540
    /\ ProbeCategory.turn_duration = 30
    /\ Len(probe[1].slots) = 2
    /\ probe[1].slots[2].slot_datetime = Combine(Mon8, 570)

----------------------------------------------------------------------------
(* The day query specification: get_available_slots(category_id, date), the *)
(* per-day entry point, next to searches by name over the same tables.      *)

\* available_slots_for_day: the schedule is looked up by id; weekday match,
\* rotation check, slot generation, occupancy filter; no day walk and no
\* truncation.  An unknown id gives the empty list.
GetAvailableSlots(category_id, date) ==
    LET found == {s \in schedules : s.id = category_id}
    IN  IF found = {} THEN <<>>
        ELSE LET category == CHOOSE s \in found : TRUE
             IN  IF Weekday(DateOf(date)) # category.day_of_week THEN <<>>
                 ELSE IF ~IsScheduleActive(category, date) THEN <<>>
                 ELSE FilterOccupiedSlots(GenerateSlots(category, date),
                                          category.name)

\* Wednesday 2024-01-10 and Monday 2024-01-15
Wed10 == Jan(10)
Mon15 == Jan(15)

\* a category id no stored schedule has
UnknownId == 999

\* the stored schedules of the day queries: Cardiology on Monday from 09:00
\* with MaxTurns or 4 turns of 30 minutes, and on Wednesday from 14:00 with
\* MaxTurns turns of 30 minutes; FIXED, or ALTERNATED every MaxRotationWeeks
\* weeks from 2024-01-01
DayRotations == {<<FIXED, 1, None>>, <<ALTERNATED, MaxRotationWeeks, None>>}

DaySchedulePool ==
    {CategorySchedule(PoolId(Weekday(Mon8)), PoolType, PoolName, Weekday(Mon8),
                      540, 30, turns, rot[1], rot[2], rot[3]) :
        turns \in {MaxTurns, 4}, rot \in DayRotations}
    \cup
    {CategorySchedule(PoolId(Weekday(Wed10)), PoolType, PoolName,
                      Weekday(Wed10), 840, 30, MaxTurns, rot[1], rot[2], rot[3]) :
        rot \in DayRotations}

\* the stored appointments of the day queries: at Monday 2024-01-08 09:30
DayAppointmentPool ==
    {Appointment(PoolAppointmentId(Combine(Mon8, 570), specialty, status), 1,
                 Combine(Mon8, 570), specialty, status) :
        specialty \in Names, status \in {SCHEDULED, CANCELLED}}

\* the ids and dates asked for
DayIds == {PoolId(Weekday(Mon8)), PoolId(Weekday(Wed10)), UnknownId}
DayDates == {Combine(d, 0) : d \in {Mon8, Tue9, Wed10, Mon15}}

InitDay ==
    /\ clock = ClockStart
    /\ schedules \in {rows \in SubsetsUpTo(DaySchedulePool, 2) :
                        UniqueNameDay(rows)}
    /\ appointments \in SubsetsUpTo(DayAppointmentPool, MaxAppointments)
    /\ requests = [r \in Requests |-> IdleRequest]
    /\ search = IdleSearch
    /\ probe \in {Some([category_id |-> id, date |-> t, called |-> FALSE,
                         result |-> <<>>]) :
                     id \in DayIds, t \in DayDates}

\* service.get_available_slots(category_id, date)
DayCall ==
    /\ probe # None
    /\ ~probe[1].called
    /\ probe' = Some([probe[1] EXCEPT
                        !.called = TRUE,
                        !.result = GetAvailableSlots(probe[1].category_id,
                                                     probe[1].date)])
    /\ UNCHANGED <<clock, schedules, appointments, requests, search>>

NextDay == DayCall \/ SearchBegin \/ SearchDay \/ SearchReturn

SpecDay == InitDay /\ [][NextDay]_vars

----------------------------------------------------------------------------
(* Properties of the day query (SpecDay).                                   *)

\* the stored schedules with the id asked for
DayRules == {s \in schedules : s.id = probe[1].category_id}

\* the instants of a sequence of slots
InstantsOf(slots) == [i \in 1..Len(slots) |-> slots[i].slot_datetime]

\* C13: the day query returns the entire free set of the rule and date: when
\* the date's weekday is the rule's day_of_week and the rule is active,
\* exactly the generated slots that no SCHEDULED or CONFIRMED appointment of
\* the rule's name takes, in order; when the weekday differs or the rule is
\* inactive, the empty list.  4 slots from 09:00 every 30 minutes with a
\* SCHEDULED appointment at 09:30 give exactly 09:00, 10:00 and 10:30.
C13_DayQueryReturnsFreeSet ==
    (Called /\ DayRules # {}) =>
        \A rule \in DayRules :
            LET date == DateOf(probe[1].date)
                result == probe[1].result
                first == date * MinutesPerDay + rule.start_time
                free == {k \in 0..(rule.max_turns_per_block - 1) :
                            ~Occupied(rule.name, first + k * rule.turn_duration)}
            IN  IF Weekday(date) = rule.day_of_week
                   /\ IsScheduleActive(rule, probe[1].date)
                THEN /\ Len(result) = Cardinality(free)
                     /\ \A k \in free :
                           LET slot == result[Cardinality({j \in free : j <= k})]
                           IN  /\ slot.slot_datetime
                                     = first + k * rule.turn_duration
                               /\ slot.category_name = rule.name
                               /\ slot.category_id = rule.id
                     /\ ( /\ rule.max_turns_per_block = 4
                          /\ date = Mon8
                          /\ Occupied(rule.name, Combine(Mon8, 570)) )
                        => InstantsOf(result)
                              = <<Combine(Mon8, 540), Combine(Mon8, 600),
                                  Combine(Mon8, 630)>>
                ELSE result = <<>>

\* C13 witness: the 4-turn Monday rule asked for Monday 2024-01-08, with the
\* 09:30 slot taken: three slots came back.
C13_Witness ==
    /\ Called
    /\ \E rule \in DayRules : rule.max_turns_per_block = 4
    /\ DateOf(probe[1].date) = Mon8
    /\ Occupied(PoolName, Combine(Mon8, 570))
    /\ Len(probe[1].result) = 3

----------------------------------------------------------------------------
(* The window query specification: GET /appointments/slots, the slots of a  *)
(* category name over the days following a date.                            *)

\* the days a window query covers
WindowDays == 14

\* the free slots of the category on one date: the rules of the name and
\* type on the date's weekday, when active, generated and filtered
RECURSIVE SlotsOfRules(_, _)
SlotsOfRules(rules, date) ==
    IF rules = {} THEN <<>>
    ELSE LET category == CHOOSE s \in rules :
                            \A other \in rules : s.id <= other.id
             rest == SlotsOfRules(rules \ {category}, date)
         IN  IF IsScheduleActive(category, date)
             THEN FilterOccupiedSlots(GenerateSlots(category, date),
                                      category.name) \o rest
             ELSE rest

\* the slots query: every free slot of each of the WindowDays days from date
RECURSIVE GetSlotsFrom(_, _, _, _)
GetSlotsFrom(category_name, category_type, date, day_offset) ==
    IF day_offset >= WindowDays THEN <<>>
    ELSE LET day == date + day_offset * MinutesPerDay
             rules == {s \in MatchingSchedules(category_name, category_type) :
                          s.day_of_week = Weekday(DateOf(day))}
         IN  SlotsOfRules(rules, day)
               \o GetSlotsFrom(category_name, category_type, date, day_offset + 1)

GetSlots(category_name, category_type, date) ==
    GetSlotsFrom(category_name, category_type, date, 0)

\* Sunday 2024-01-07 and Wednesday 2024-01-17
Sun7 == Jan(7)
Wed17 == Jan(17)

\* the stored schedules of the window queries: Pediatria on Monday from
\* 09:00 and on Wednesday from 14:00, up to MaxTurns turns of 30 minutes
WindowName == "Pediatria"
WindowNames == {WindowName, PoolName}

WindowSchedulePool ==
    {CategorySchedule(PoolId(block[1]), SPECIALTY, WindowName, block[1],
                      block[2], 30, turns, rot[1], rot[2], rot[3]) :
        block \in {<<Weekday(Mon8), 540>>, <<Weekday(Wed10), 840>>},
        turns \in 1..MaxTurns, rot \in DayRotations}

\* the stored appointments of the window queries: at Monday 2024-01-08
\* 09:30 or Wednesday 2024-01-10 14:00
WindowAppointmentPool ==
    {Appointment(1, 1, instant, specialty, status) :
        instant \in {Combine(Mon8, 570), Combine(Wed10, 840)},
        specialty \in WindowNames, status \in {SCHEDULED, CANCELLED}}

InitWindow ==
    /\ clock = ClockStart
    /\ schedules \in {rows \in SubsetsUpTo(WindowSchedulePool, 2) :
                        UniqueNameDay(rows)}
    /\ appointments \in SubsetsUpTo(WindowAppointmentPool, 1)
    /\ requests = [r \in Requests |-> IdleRequest]
    /\ search = IdleSearch
    /\ probe \in {Some([category_name |-> name, category_type |-> type,
                         date |-> Combine(d, 0), called |-> FALSE,
                         result |-> <<>>]) :
                     name \in WindowNames, type \in CategoryType,
                     d \in {Sun7, Mon8, Wed10}}

\* GET /appointments/slots?category_name=&category_type=&date=
SlotsCall ==
    /\ probe # None
    /\ ~probe[1].called
    /\ probe' = Some([probe[1] EXCEPT
                        !.called = TRUE,
                        !.result = GetSlots(probe[1].category_name,
                                            probe[1].category_type,
                                            probe[1].date)])
    /\ UNCHANGED <<clock, schedules, appointments, requests, search>>

NextWindow == SlotsCall

SpecWindow == InitWindow /\ [][NextWindow]_vars

----------------------------------------------------------------------------
(* Properties of the window query (SpecWindow).                             *)

\* the free instants of the queried category in the window: one for every
\* day of the window, rule of the name and type on that weekday that is
\* active that day, and turn of the rule that no active appointment of the
\* name takes
WindowFreeInstants ==
    LET ActiveOffsets(rule) ==
            {o \in 0..(WindowDays - 1) :
                /\ Weekday(DateOf(probe[1].date) + o) = rule.day_of_week
                /\ IsScheduleActive(rule, probe[1].date + o * MinutesPerDay)}
        Turns(rule, o) ==
            {Combine(DateOf(probe[1].date) + o, rule.start_time)
                + k * rule.turn_duration :
                k \in 0..(rule.max_turns_per_block - 1)}
        RuleInstants(rule) == UNION {Turns(rule, o) : o \in ActiveOffsets(rule)}
        generated == UNION {RuleInstants(rule) :
                              rule \in MatchingSchedules(probe[1].category_name,
                                                         probe[1].category_type)}
    IN  {t \in generated : ~Occupied(probe[1].category_name, t)}

\* the scenario's rules: Monday 09:00 and Wednesday 14:00, FIXED, 2 turns
ScenarioARules ==
    {CategorySchedule(PoolId(block[1]), SPECIALTY, WindowName, block[1],
                      block[2], 30, 2, FIXED, 1, None) :
        block \in {<<Weekday(Mon8), 540>>, <<Weekday(Wed10), 840>>}}

----------------------------------------------------------------------------
(* Further properties of get_next_available_slots (Spec).                   *)

\* C15: the search terminates after examining at most 60 consecutive
\* calendar days starting at the current day: it starts on the current
\* instant with no day searched, every iteration searches one more day and
\* moves the cursor to the next day, it is never stuck while walking, and it
\* walks only while fewer than 60 days were searched.
C15_TerminatesWithinHorizon ==
    /\ [](/\ search.days_searched <= HORIZON
          /\ search.pc = "walking" =>
                /\ search.days_searched < HORIZON
                /\ ENABLED SearchDay)
    /\ [][(search.pc = "idle" /\ search'.pc # "idle") =>
             /\ search'.current_date_cursor = clock
             /\ search'.days_searched = 0]_vars
    /\ [][(search.pc = "walking" /\ search' # search) =>
             /\ search'.days_searched = search.days_searched + 1
             /\ search'.current_date_cursor
                   = search.current_date_cursor + MinutesPerDay
             /\ search'.pc \in {"walking", "done"}]_vars

\* C15 witness: a search over a schedule that is never active inside the
\* horizon ended after its 60th day with nothing found.
C15_Witness ==
    /\ search.pc = "done"
    /\ search.days_searched = HORIZON
    /\ search.schedules_by_day # <<>>
    /\ Result = <<>>

\* a returned slot comes from a rule of the searched name and type, on one
\* of the days walked, on which the rule's weekday matches and the rule is
\* active; it is one of the rule's turns of that day and no active
\* appointment of the name is at its instant
GeneratedAndFree(slot) ==
    \E rule \in MatchingSchedules(search.category_name, search.category_type),
       n \in 1..search.days_searched :
        LET day == search.current_date_cursor - n * MinutesPerDay
        IN  /\ Weekday(DateOf(day)) = rule.day_of_week
            /\ IsScheduleActive(rule, day)
            /\ \E k \in 0..(rule.max_turns_per_block - 1) :
                  slot.slot_datetime
                     = Combine(DateOf(day), rule.start_time)
                          + k * rule.turn_duration
            /\ slot.category_id = rule.id
            /\ slot.category_name = rule.name
            /\ ~Occupied(rule.name, slot.slot_datetime)

----------------------------------------------------------------------------
(* The midnight specification: searches by name over the schedules of the  *)
(* day queries (blocks at 09:00 and 14:00), begun at 23:20 while time       *)
(* passes into the next day.                                                *)

InitMidnight ==
    /\ clock = ClockStart
    /\ schedules \in {rows \in SubsetsUpTo(DaySchedulePool, 2) :
                        UniqueNameDay(rows)}
    /\ appointments \in SubsetsUpTo(DayAppointmentPool, MaxAppointments)
    /\ requests = [r \in Requests |-> IdleRequest]
    /\ search = IdleSearch
    /\ probe = None

SpecMidnight == InitMidnight /\ [][Next]_vars

\* start_date: the instant the search in progress read when it was called
CallInstant ==
    search.current_date_cursor - search.days_searched * MinutesPerDay

\* C17: every slot the search returns is strictly later than the instant of
\* the call, whatever the moment at which the search runs: the slots of
\* today at or before now are discarded.
C17_ReturnedSlotsInFuture ==
    search.pc = "done" =>
        \A i \in 1..Len(Result) : ResultInstant(i) > CallInstant

----------------------------------------------------------------------------
(* Unknown categories (SpecDay).                                            *)

\* the searched name and type have no stored schedule
UnknownCategory ==
    ~\E s \in schedules :
        s.name = search.category_name /\ s.category_type = search.category_type

\* C18: an unknown category id given to the day query, or an unknown name
\* or name and type pair given to the search, yields an empty result and no
\* error: the day query returns the empty list, the search is over at once
\* with the empty list.
C18_UnknownYieldsEmpty ==
    /\ (Called /\ DayRules = {}) => probe[1].result = <<>>
    /\ (search.pc # "idle" /\ UnknownCategory) =>
          /\ search.pc = "done"
          /\ Result = <<>>

\* C18 witness: with schedules stored, the day query was asked for id 999
\* and a search for the stored name under the other category type is over.
C18_Witness ==
    /\ schedules # {}
    /\ Called
    /\ probe[1].category_id = UnknownId
    /\ probe[1].result = <<>>
    /\ search.pc = "done"
    /\ search.category_name = PoolName
    /\ search.category_type = LABORATORY
    /\ Result = <<>>

----------------------------------------------------------------------------
(* The administration specification: the admin endpoints applied one after *)
(* another to the category_schedules table, which starts empty.  probe     *)
(* keeps the request handled last and its status code.                      *)

\* the schedule ids the table may hand out
MaxScheduleId == 3

\* the requests' fields
AdminNames == {PoolName, WindowName}
AdminDays == {Weekday(Mon8), Weekday(Tue9)}
AdminStartTimes == {540}

\* a CategoryScheduleCreate body
ScheduleData ==
    {[category_type |-> type, name |-> name, day_of_week |-> dow,
      start_time |-> start, turn_duration |-> 30,
      max_turns_per_block |-> MaxTurns, rotation_type |-> FIXED,
      rotation_weeks |-> 1, start_date |-> None] :
        type \in CategoryType, name \in AdminNames, dow \in AdminDays,
        start \in AdminStartTimes}

\* db.commit() on table category_schedules: the rows are stored unless they
\* break uq_category_schedules_name_day_of_week (IntegrityError)
Committed(rows) == IF UniqueNameDay(rows) THEN rows ELSE schedules

\* the request handled and how it ended
AdminRequest(op, type, name, dow, status_code) ==
    Some([op |-> op, category_type |-> type, name |-> name,
          day_of_week |-> dow, status_code |-> status_code])

\* POST /admin/schedules: 401 on a wrong password; the row of the body's
\* category_type and day_of_week is looked up with scalar_one_or_none()
\* (several rows: MultipleResultsFound, 500); one row: its fields are
\* overwritten with the body's; no row: a row is inserted.
create_or_update_schedule ==
    \E password_ok \in BOOLEAN, schedule_data \in ScheduleData :
        LET existing == {e \in schedules :
                            /\ e.category_type = schedule_data.category_type
                            /\ e.day_of_week = schedule_data.day_of_week}
            existing_schedule == CHOOSE e \in existing : TRUE
            updated == (schedules \ {existing_schedule}) \cup
                {[existing_schedule EXCEPT
                    !.name = schedule_data.name,
                    !.start_time = schedule_data.start_time,
                    !.turn_duration = schedule_data.turn_duration,
                    !.max_turns_per_block = schedule_data.max_turns_per_block,
                    !.rotation_type = schedule_data.rotation_type,
                    !.rotation_weeks = schedule_data.rotation_weeks,
                    !.start_date = schedule_data.start_date]}
            created == schedules \cup
                {[id |-> NextId(schedules)] @@ schedule_data}
            rows == IF ~password_ok \/ Cardinality(existing) > 1 THEN schedules
                    ELSE IF existing # {} THEN updated ELSE created
            status_code == IF ~password_ok THEN 401
                           ELSE IF Cardinality(existing) > 1 THEN 500
                           ELSE IF UniqueNameDay(rows) THEN 201 ELSE 500
        IN  /\ (password_ok /\ existing = {}) =>
                  NextId(schedules) <= MaxScheduleId
            /\ schedules' = Committed(rows)
            /\ probe' = AdminRequest("create_or_update_schedule",
                                     schedule_data.category_type,
                                     schedule_data.name,
                                     schedule_data.day_of_week, status_code)
            /\ UNCHANGED <<clock, appointments, requests, search>>

\* POST /admin/categories: a default schedule (Monday 08:00, 8 turns of 30
\* minutes, FIXED) is inserted for the name
create_category ==
    \E password_ok \in BOOLEAN, type \in CategoryType, name \in AdminNames :
        LET new_schedule ==
                CategorySchedule(NextId(schedules), type, name, 0, 480, 30, 8,
                                 FIXED, 1, None)
            rows == IF password_ok THEN schedules \cup {new_schedule}
                    ELSE schedules
            status_code == IF ~password_ok THEN 401
                           ELSE IF UniqueNameDay(rows) THEN 201 ELSE 500
        IN  /\ password_ok => NextId(schedules) <= MaxScheduleId
            /\ schedules' = Committed(rows)
            /\ probe' = AdminRequest("create_category", type, name, 0,
                                     status_code)
            /\ UNCHANGED <<clock, appointments, requests, search>>

\* DELETE /admin/categories/{name}: every schedule of the name is deleted
delete_category ==
    \E password_ok \in BOOLEAN, name \in AdminNames :
        /\ schedules' = IF password_ok
                        THEN {s \in schedules : s.name # name}
                        ELSE schedules
        /\ probe' = AdminRequest("delete_category", "", name, 0,
                                 IF password_ok THEN 200 ELSE 401)
        /\ UNCHANGED <<clock, appointments, requests, search>>

InitAdmin ==
    /\ clock = ClockStart
    /\ schedules = {}
    /\ appointments = {}
    /\ requests = [r \in Requests |-> IdleRequest]
    /\ search = IdleSearch
    /\ probe = None

NextAdmin == create_or_update_schedule \/ create_category \/ delete_category

SpecAdmin == InitAdmin /\ [][NextAdmin]_vars

----------------------------------------------------------------------------
(* Properties of the admin endpoints (SpecAdmin).                           *)

\* C19: after any sequence of administrative operations the stored rule set
\* holds at most one rule per (name, day_of_week).
C19_AtMostOneRulePerNameAndDay ==
    \A name \in AdminNames, dow \in 0..6 :
        Cardinality({s \in schedules :
                        s.name = name /\ s.day_of_week = dow}) <= 1

\* C19 witness: a category creation was refused (500) because the name
\* already has a Monday rule, stored under the other category type.
C19_Witness ==
    /\ probe # None
    /\ probe[1].op = "create_category"
    /\ probe[1].status_code = 500
    /\ \E s \in schedules :
          /\ s.name = probe[1].name
          /\ s.day_of_week = 0
          /\ s.category_type # probe[1].category_type

\* C20: create-or-update is keyed by name and day_of_week: a rule submitted
\* for (name N, weekday D) and stored (201) updates the rule with name N and
\* weekday D if there is one and otherwise creates a new rule, and in both
\* cases every rule with another name or another weekday stays as it was.
C20_KeyedByNameAndDay ==
    [][ ( /\ probe' # None
          /\ probe'[1].op = "create_or_update_schedule"
          /\ probe'[1].status_code = 201 ) =>
          LET N == probe'[1].name
              D == probe'[1].day_of_week
              Keyed(rows) == {e \in rows : e.name = N /\ e.day_of_week = D}
              Others(rows) == rows \ Keyed(rows)
          IN  /\ Others(schedules') = Others(schedules)
              /\ Cardinality(Keyed(schedules')) = 1
              /\ \A e \in Keyed(schedules), u \in Keyed(schedules') :
                    u.id = e.id ]_vars

----------------------------------------------------------------------------
(* Updates through create_or_update_schedule (SpecAdmin).                   *)

\* the stored rules of the category_type and day_of_week a request named
SameTypeAndDay(rows) ==
    {e \in rows : /\ e.category_type = probe'[1].category_type
                  /\ e.day_of_week = probe'[1].day_of_week}

\* C21: create_or_update_schedule called, with the right password, with a
\* (category_type, day_of_week) for which a rule already exists updates that
\* rule in place: the call succeeds (201), the rule keeps its id and holds
\* the submitted values, and the number of stored rules does not change.
C21_UpdatesInPlace ==
    [][ ( /\ probe' # None
          /\ probe'[1].op = "create_or_update_schedule"
          /\ probe'[1].status_code # 401
          /\ SameTypeAndDay(schedules) # {} ) =>
          /\ probe'[1].status_code = 201
          /\ Cardinality(schedules') = Cardinality(schedules)
          /\ \E e \in SameTypeAndDay(schedules), u \in schedules' :
                /\ u.id = e.id
                /\ u.name = probe'[1].name
                /\ u.category_type = e.category_type
                /\ u.day_of_week = e.day_of_week
                /\ {s.id : s \in schedules'} = {s.id : s \in schedules} ]_vars

----------------------------------------------------------------------------
(* Rejected bookings (SpecBooking).                                         *)

\* C22: book_appointment for a (doctor, instant) that already has a
\* SCHEDULED or CONFIRMED appointment is rejected with 409 Conflict and
\* leaves the set of appointments unchanged: the availability query of such
\* a request ends it with 409, and it inserts nothing.
C22_TakenSlotRejectedWith409 ==
    [][ \A r \in Requests :
          ( /\ requests[r].pc = "doctor_ok"
            /\ requests'[r] # requests[r]
            /\ ExistingAppointments(requests[r].doctor_id,
                                    requests[r].appointment_date) # {} ) =>
              /\ requests'[r].pc = "done"
              /\ requests'[r].status_code = 409
              /\ appointments' = appointments ]_vars

----------------------------------------------------------------------------
(* The rebooking specification: one worker handles bookings of Cardiology  *)
(* one after another while searches by name run over the same tables.  The *)
(* stored schedules are the FIXED Monday 23:30 and Tuesday 00:00 blocks of  *)
(* Cardiology; the appointments table starts empty or with one row, of any  *)
(* status.  No operation of the code changes the status of a stored         *)
(* appointment.                                                             *)

RebookSchedules == {s \in SchedulePool : s.rotation_type = FIXED}

\* the appointments stored at the start are Cardiology's
RebookAppointmentPool == {a \in AppointmentPool : a.specialty = PoolName}

\* the worker handling the bookings
RebookWorker == CHOOSE r \in Requests : \A other \in Requests : r <= other

InitRebook ==
    /\ clock = ClockStart
    /\ schedules = RebookSchedules
    /\ appointments \in SubsetsUpTo(RebookAppointmentPool, 1)
    /\ requests = [r \in Requests |-> IdleRequest]
    /\ search = IdleSearch
    /\ probe = None

\* a booking of Cardiology arrives
RebookReceive ==
    /\ BookReceive(RebookWorker)
    /\ requests'[RebookWorker].specialty = PoolName

NextRebook ==
    \/ RebookReceive
    \/ BookCheck(RebookWorker)
    \/ BookCommit(RebookWorker)
    \/ BookRespond(RebookWorker)
    \/ SearchBegin
    \/ SearchDay
    \/ SearchReturn

SpecRebook == InitRebook /\ [][NextRebook]_vars

----------------------------------------------------------------------------
(* Properties of bookings followed by searches (SpecRebook).                *)

\* a booking of the instant for the specialty was answered with 201
BookingSucceeded(specialty, instant) ==
    \E r \in Requests :
        /\ requests[r].pc = "done"
        /\ requests[r].status_code = 201
        /\ requests[r].specialty = specialty
        /\ requests[r].appointment_date = instant

\* the search in progress has collected a slot at the instant
Offered(instant) == \E i \in 1..Len(Result) : ResultInstant(i) = instant

\* C23: after a booking has succeeded for instant T with specialty R (the
\* appointment is stored SCHEDULED, and nothing changes its status), every
\* availability search for category R that begins afterwards omits the slot
\* at T.
C23_BookedSlotOmittedLater ==
    \A R \in Names, T \in BookInstants :
        []( ( /\ search.pc = "idle"
              /\ BookingSucceeded(R, T) \/ Occupied(R, T) )
            => [](search.category_name = R => ~Offered(T)) )

\* C23 witness: the table started empty, the booking of Cardiology at Monday
\* 23:30 succeeded, and a search for Cardiology examined Monday, had the
\* 23:30 slot among its candidates and collected Monday's next slot instead.
C23_Witness ==
    /\ BookingSucceeded(PoolName, Combine(Mon8, 1410))
    /\ Cardinality(appointments) = 1
    /\ search.pc = "done"
    /\ search.category_name = PoolName
    /\ search.days_searched = 1
    /\ search.slots[1].slot_datetime = Combine(Mon8, 1410)
    /\ InstantsOf(Result) = <<Combine(Tue9, 30)>>

----------------------------------------------------------------------------
(* Rule selection of get_next_available_slots (Spec).                       *)

\* the stored rules of the searched name and type for the weekday of a day
RulesOfDay(day) ==
    {s \in MatchingSchedules(search.category_name, search.category_type) :
        s.day_of_week = Weekday(DateOf(day))}

\* C25: with several rules of one name on different weekdays, each walked
\* day uses only the rule whose day_of_week is that day's weekday: a slot
\* collected on a day carries the category_id (and name) of a stored rule of
\* the searched name and type for that weekday, and a day whose weekday has
\* no rule contributes nothing.
C25_DayUsesRuleOfItsWeekday ==
    [][ (search.pc = "walking" /\ search' # search) =>
          LET rules == RulesOfDay(search.current_date_cursor)
              before == search.all_available_slots
              after == search'.all_available_slots
          IN  /\ Len(after) >= Len(before)
              /\ rules = {} => after = before
              /\ \A i \in (Len(before) + 1)..Len(after) :
                    \E rule \in rules :
                        /\ after[i].category_id = rule.id
                        /\ after[i].category_name = rule.name ]_vars

\* C25 witness: Cardiology has a Monday rule and a Tuesday rule; a search
\* begun on a Monday on which the Monday rule is not active collected a slot
\* of the Tuesday rule, walked the days without a rule, and collected a slot
\* of the Monday rule on a later Monday.
C25_Witness ==
    /\ search.pc = "done"
    /\ search.days_searched > 7
    /\ Len(Result) = 2
    /\ Result[1].category_id = PoolId(Weekday(Tue9))
    /\ Result[2].category_id = PoolId(Weekday(Mon8))
    /\ Weekday(DateOf(ResultInstant(2))) = Weekday(Mon8)

----------------------------------------------------------------------------
(* The category type specification: searches over rules of both category   *)
(* types.  A name may have a specialty rule on one weekday and a laboratory *)
(* rule on another; every rule has its own id.                              *)

TypeOrder == <<SPECIALTY, LABORATORY>>

\* the primary key of the rule of a name, type and weekday
TypedId(name, type, dow) ==
    1 + dow + 2 * (IndexIn(TypeOrder, type) - 1)
            + 4 * (IndexIn(NameOrder, name) - 1)

\* the stored rules are Cardiology's, of either type
TypedSchedulePool ==
    {CategorySchedule(TypedId(PoolName, type, block[1]), type, PoolName,
                      block[1], block[2], block[3], MaxTurns, FIXED, 1, None) :
        type \in CategoryType, block \in PoolBlocks}

InitTypes ==
    /\ clock = ClockStart
    /\ schedules \in {rows \in SubsetsUpTo(TypedSchedulePool, 2) :
                        UniqueNameDay(rows)}
    /\ appointments \in SubsetsUpTo(AppointmentPool, MaxAppointments)
    /\ requests = [r \in Requests |-> IdleRequest]
    /\ search = IdleSearch
    /\ probe = None

SpecTypes == InitTypes /\ [][Next]_vars

----------------------------------------------------------------------------
(* Properties of searches over both category types (SpecTypes).             *)

\* the stored rules with the searched name and the searched type
RulesOfNameAndType ==
    {s \in schedules : /\ s.name = search.category_name
                       /\ s.category_type = search.category_type}

\* C26: the search uses only rules whose name is the searched name and whose
\* category_type is the searched type: every collected slot carries the id
\* of such a rule, so a rule with the same name and the other type never
\* contributes a slot; and when no rule matches both, the search is over at
\* once with the empty list.
C26_OnlyRulesOfNameAndType ==
    /\ \A i \in 1..Len(Result) :
          \E rule \in RulesOfNameAndType : Result[i].category_id = rule.id
    /\ (search.pc # "idle" /\ RulesOfNameAndType = {}) =>
          /\ search.pc = "done"
          /\ Result = <<>>

\* C26 witness: the name has a rule of each type, on different weekdays; the
\* search for one type walked past the weekday of the other type's rule and
\* collected two slots, both of the rule of the searched type.
C26_Witness ==
    /\ search.pc = "done"
    /\ Len(Result) = 2
    /\ search.days_searched > 7
    /\ \E own \in RulesOfNameAndType, other \in schedules :
          /\ other.name = own.name
          /\ other.category_type # own.category_type
          /\ other.day_of_week # own.day_of_week
          /\ Result[1].category_id = own.id
          /\ Result[2].category_id = own.id

\* C27: occupancy is matched on the resource name and the instant only: for
\* every rule named N, whatever its id and its category_type, the occupancy
\* filter removes the candidate at T exactly when a SCHEDULED or CONFIRMED
\* appointment with specialty N is at T.
C27_OccupancyByNameAndInstant ==
    (search.walked /\ search.category # None) =>
        LET rule == search.category[1]
            Kept(slot) == \E j \in 1..Len(search.available_slots) :
                             search.available_slots[j] = slot
        IN  \A i \in 1..Len(search.slots) :
                Kept(search.slots[i]) <=>
                    ~\E a \in appointments :
                        /\ a.status \in {SCHEDULED, CONFIRMED}
                        /\ a.specialty = rule.name
                        /\ a.appointment_date = search.slots[i].slot_datetime

\* C27 witness: a laboratory rule whose id differs from the appointment's
\* ids had its candidate at the instant of an active appointment of its name
\* removed.
C27_Witness ==
    /\ search.walked
    /\ search.category # None
    /\ search.category[1].category_type = LABORATORY
    /\ \E a \in appointments :
          /\ IsActive(a)
          /\ a.specialty = search.category[1].name
          /\ a.id # search.category[1].id
          /\ a.doctor_id # search.category[1].id
          /\ search.slots # <<>>
          /\ search.slots[1].slot_datetime = a.appointment_date
          /\ \A j \in 1..Len(search.available_slots) :
                search.available_slots[j].slot_datetime # a.appointment_date

----------------------------------------------------------------------------
(* Completeness of get_next_available_slots (SpecMidnight).                 *)

\* the least element of a non-empty set of instants
Earliest(instants) == CHOOSE t \in instants : \A u \in instants : t <= u

\* the free future instants of day number n of the search in progress (day
\* 0 is the day of the call): the turns that the rules of the searched name
\* and type for that weekday, when active that day, generate for the day,
\* that are later than the instant of the call and that no active
\* appointment of the name takes
FreeFutureInstants(n) ==
    LET day == CallInstant + n * MinutesPerDay
        Turns(rule) ==
            {Combine(DateOf(day), rule.start_time) + k * rule.turn_duration :
                k \in 0..(rule.max_turns_per_block - 1)}
        generated == UNION {Turns(rule) :
                              rule \in {s \in RulesOfDay(day) :
                                           IsScheduleActive(s, day)}}
    IN  {t \in generated :
            t > CallInstant /\ ~Occupied(search.category_name, t)}

\* the earliest free future instant of each day from day n to the end of
\* the horizon, for the days that have one, in day order
RECURSIVE EarliestPerDay(_)
EarliestPerDay(n) ==
    IF n >= HORIZON THEN <<>>
    ELSE (IF FreeFutureInstants(n) = {} THEN <<>>
          ELSE <<Earliest(FreeFutureInstants(n))>>) \o EarliestPerDay(n + 1)

\* the first k elements of a sequence
FirstElements(s, k) == SubSeq(s, 1, IF Len(s) < k THEN Len(s) ELSE k)

\* C28: the search is complete within its horizon: the list it returns is
\* the first limit elements of the sequence holding, for each of the 60
\* days from the day of the call, in order, the earliest free future slot
\* of that day when there is one; a shorter list means no other day of the
\* horizon has one.
C28_CompleteWithinHorizon ==
    search.pc = "done" =>
        InstantsOf(Result) = FirstElements(EarliestPerDay(0), search.limit)

----------------------------------------------------------------------------
(* The occurrences specification: _is_schedule_active applied to one       *)
(* schedule on the consecutive weekly occurrences of a date, one call per   *)
(* occurrence, as many occurrences as the schedule's rotation_weeks.        *)

\* the weekdays of the probed schedules: Monday, Wednesday, Friday
OccurrenceDays == {Weekday(Mon8), Weekday(Wed10), Weekday(Mon8 + 4)}

OccurrenceSchedules ==
    {CategorySchedule(1, LABORATORY, "Blood Test", dow, 480, 15, 3,
                      rot, weeks, anchor) :
        dow \in OccurrenceDays, rot \in RotationType,
        weeks \in 1..MaxProbeWeeks, anchor \in ProbeAnchors}

InitOccurrences ==
    /\ clock = ClockStart
    /\ schedules = {}
    /\ appointments = {}
    /\ requests = [r \in Requests |-> IdleRequest]
    /\ search = IdleSearch
    /\ probe \in {Some([category |-> c, date |-> t, called |-> FALSE,
                         active |-> <<>>]) :
                     c \in OccurrenceSchedules, t \in ProbeInstants}

\* self._is_schedule_active(category, date + k weeks) for k = 0 .. N - 1
OccurrencesCall ==
    /\ probe # None
    /\ ~probe[1].called
    /\ probe' = Some([probe[1] EXCEPT
                        !.called = TRUE,
                        !.active =
                            [k \in 1..probe[1].category.rotation_weeks |->
                                IsScheduleActive(
                                    probe[1].category,
                                    probe[1].date
                                        + (k - 1) * 7 * MinutesPerDay)]])
    /\ UNCHANGED <<clock, schedules, appointments, requests, search>>

NextOccurrences == OccurrencesCall

SpecOccurrences == InitOccurrences /\ [][NextOccurrences]_vars

----------------------------------------------------------------------------
(* Properties of consecutive occurrences (SpecOccurrences).                 *)

\* C29: for an ALTERNATED schedule with rotation_weeks = N > 1, among any N
\* consecutive weekly occurrences of the schedule's weekday that fall on or
\* after the anchor exactly one is active, whether or not the anchor date is
\* on the schedule's weekday.
C29_OneActiveInEveryPeriod ==
    ( /\ Called
      /\ ProbeCategory.rotation_type = ALTERNATED
      /\ ProbeCategory.rotation_weeks > 1
      /\ Weekday(ProbeDate) = ProbeCategory.day_of_week
      /\ ProbeDate >= ProbeAnchor ) =>
        Cardinality({k \in 1..ProbeCategory.rotation_weeks :
                        probe[1].active[k]}) = 1

\* C29 witness: a Monday schedule rotating every 3 weeks from Wednesday
\* 2024-01-10: of the Mondays 2024-01-22, -29 and 02-05 the third is the
\* active one.
C29_Witness ==
    /\ Called
    /\ ProbeCategory.rotation_type = ALTERNATED
    /\ ProbeCategory.rotation_weeks = 3
    /\ ProbeCategory.day_of_week = Weekday(Mon8)
    /\ ProbeCategory.start_date = Some(Jan(10))
    /\ ProbeDate = Jan(22)
    /\ probe[1].active = <<FALSE, FALSE, TRUE>>

----------------------------------------------------------------------------
(* Rebooking after an appointment stopped being active (SpecRebook).        *)

\* the doctor has appointments at the instant and all of them are CANCELLED
\* or COMPLETED
OnlyInactiveFor(doctor, instant) ==
    LET at == {a \in appointments :
                  a.doctor_id = doctor /\ a.appointment_date = instant}
    IN  /\ at # {}
        /\ \A a \in at : a.status \in {CANCELLED, COMPLETED}

\* the resource has appointments at the instant and all of them are
\* CANCELLED or COMPLETED
OnlyInactiveOf(resource, instant) ==
    LET at == {a \in appointments :
                  a.specialty = resource /\ a.appointment_date = instant}
    IN  /\ at # {}
        /\ \A a \in at : a.status \in {CANCELLED, COMPLETED}

\* C30: a slot is bookable again once its appointment is no longer active:
\* a booking for a (doctor, instant) whose only appointments are CANCELLED
\* or COMPLETED passes the availability query, its insert stores a new
\* SCHEDULED appointment for that doctor and instant and is answered 201;
\* and, before the rebooking, a search hands a candidate at an instant
\* whose only appointments of the category are CANCELLED or COMPLETED on as
\* free.
C30_BookableAgain ==
    /\ [][ \A r \in Requests :
             ( /\ requests[r].pc = "doctor_ok"
               /\ requests'[r] # requests[r]
               /\ OnlyInactiveFor(requests[r].doctor_id,
                                  requests[r].appointment_date) ) =>
                 /\ requests'[r].pc = "free"
                 /\ appointments' = appointments ]_vars
    /\ [][ \A r \in Requests :
             (requests[r].pc = "free" /\ requests'[r] # requests[r]) =>
                 /\ requests'[r].pc = "done"
                 /\ requests'[r].status_code = 201
                 /\ Cardinality(appointments') = Cardinality(appointments) + 1
                 /\ appointments \subseteq appointments'
                 /\ \A a \in appointments' \ appointments :
                       /\ a.status = SCHEDULED
                       /\ a.doctor_id = requests[r].doctor_id
                       /\ a.appointment_date = requests[r].appointment_date
                       /\ a.specialty = requests[r].specialty ]_vars
    /\ []( search.walked =>
             \A i \in 1..Len(search.slots) :
                 OnlyInactiveOf(search.category_name,
                                search.slots[i].slot_datetime) =>
                     \E j \in 1..Len(search.available_slots) :
                         search.available_slots[j] = search.slots[i] )

\* C30 witness: Cardiology's Monday 23:30 slot had a CANCELLED appointment
\* of doctor 1; a search collected the slot, and then a booking of doctor 1
\* at that instant was answered 201: the CANCELLED appointment and the new
\* SCHEDULED one are both stored.
C30_Witness ==
    LET T == Combine(Mon8, 1410)
    IN  /\ search.pc = "done"
        /\ search.category_name = PoolName
        /\ Offered(T)
        /\ BookingSucceeded(PoolName, T)
        /\ \E old, new \in appointments :
              /\ old.status = CANCELLED /\ new.status = SCHEDULED
              /\ old.appointment_date = T /\ new.appointment_date = T
              /\ old.doctor_id = new.doctor_id
              /\ old.specialty = PoolName /\ new.specialty = PoolName
              /\ new.id > old.id

====
